---- MODULE Spec2Model ----
(***************************************************************************)
(* movie-bag: the authentication and ownership-authorisation core of the   *)
(* Flask REST API (signup, login, forgot/reset password, token-protected   *)
(* creation, update and deletion of movies).                               *)
(*                                                                         *)
(* The persistent store (the User and Movie collections) is the shared     *)
(* state.  Spec serves every endpoint one request at a time, a handler     *)
(* being one step; SpecAuth and SpecMovies do so for the account endpoints *)
(* and for the movie endpoints.  SpecConc and SpecReset serve requests on  *)
(* several workers and split the handlers that make more than one          *)
(* database call into one step per call, so that the states between the    *)
(* calls are visible.                                                      *)
(*                                                                         *)
(* Abstractions: a Movie carries only the fields the handlers decide on    *)
(* (id, name, added_by); casts and genres are payload.  Time is counted in *)
(* minutes.  Every string a client can send is drawn from a small set.     *)
(***************************************************************************)
EXTENDS Integers, Sequences, FiniteSets, TLC

VARIABLES users, movies, nextMovie, now, ticks, issued, outbox, resp, pc

vars == <<users, movies, nextMovie, now, ticks, issued, outbox, resp, pc>>

(* ------------------------------ bounds -------------------------------- *)
MaxUsers == 2
MaxMovies == 1
MaxTokens == 1
MaxTicks == 1
NumWorkers == 2

Emails == {"a@x.com", "b@x.com"}
Passwords == {"abcdef", "ghijkl"}
Salts == {"s1"}
Names == {"n1", "n2"}
Workers == 1..NumWorkers

(* ----------------------------- passwords ------------------------------ *)
(* The content of the User.password string field: either a bcrypt hash     *)
(* (algorithm tag, salt, digest of salt and plaintext) or any other        *)
(* string, which has no algorithm tag.                                     *)
Plain(text) == [alg |-> "", salt |-> "", digest |-> <<"", text>>]

generate_password_hash(text, salt) ==
    [alg |-> "2b", salt |-> salt, digest |-> <<salt, text>>]

IsHash(stored) == stored.alg = "2b"

check_password_hash(stored, text) ==
    IsHash(stored) /\ stored.digest = <<stored.salt, text>>

(* A check that never compares the password. *)
check_password_any(user, password) == IsHash(user.password)

check_password(user, password) == check_password_hash(user.password, password)

(* ------------------------------- tokens ------------------------------- *)
(* A JSON web token as flask_jwt_extended builds it: the identity claim,   *)
(* the expiry and the unique jti, under a signature.  form tells what the  *)
(* string presented by a client is: a token under the server's signature   *)
(* ("signed"), a token whose signature does not verify ("tampered"), a     *)
(* string that is no token ("malformed"), or nothing ("absent").  No claim *)
(* of the token says which endpoint issued it; the variable issued records *)
(* that beside each token, for the properties only.                        *)
ResetTTLHours == 24
ResetTTL == ResetTTLHours * 60
LoginTTL == 15
TickSteps == {LoginTTL, ResetTTL}

NoToken == [form |-> "absent", identity |-> "", exp |-> 0, jti |-> 0]
Malformed == [form |-> "malformed", identity |-> "", exp |-> 0, jti |-> 0]
Tampered(t) == [t EXCEPT !.form = "tampered"]

create_access_token(identity, expires_delta, jti, time) ==
    [form |-> "signed", identity |-> identity, exp |-> time + expires_delta,
     jti |-> jti]

IssuedTokens == {i.token : i \in issued}
LoginTokens == {i.token : i \in {j \in issued : j.by = "login"}}
ResetTokens == {i.token : i \in {j \in issued : j.by = "forgot"}}

(* What a client can present where a token is expected. *)
Presentable ==
    IssuedTokens \cup {Tampered(t) : t \in IssuedTokens} \cup {Malformed, NoToken}

(* A decoder that never looks at the expiry. *)
decode_token_no_expiry(t, time) ==
    IF t.form \in {"malformed", "absent"}
    THEN [exc |-> "DecodeError", identity |-> ""]
    ELSE IF t.form = "tampered"
    THEN [exc |-> "InvalidTokenError", identity |-> ""]
    ELSE [exc |-> "", identity |-> t.identity]

(* jwt.decode: the signature is verified first, then the expiry. *)
decode_token(t, time) ==
    IF t.form \in {"malformed", "absent"}
    THEN [exc |-> "DecodeError", identity |-> ""]
    ELSE IF t.form = "tampered"
    THEN [exc |-> "InvalidTokenError", identity |-> ""]
    ELSE IF t.exp <= time
    THEN [exc |-> "ExpiredSignatureError", identity |-> ""]
    ELSE [exc |-> "", identity |-> t.identity]

(* jwt_required followed by get_jwt_identity: the requester, or the error  *)
(* the decorator answers with before the handler runs.                     *)
jwt_required(t, time) ==
    IF t.form = "absent"
    THEN [exc |-> "NoAuthorizationError", identity |-> ""]
    ELSE decode_token(t, time)

(* ------------------------------ documents ----------------------------- *)
(* A user's id is its position in users; str(user.id) is what a token      *)
(* carries, and a query by id parses the string back.                      *)
str(id) == ToString(id)

UserIds == 1..Len(users)

ObjectId(s) ==
    IF \E i \in 1..MaxUsers + 1 : ToString(i) = s
    THEN CHOOSE i \in 1..MaxUsers + 1 : ToString(i) = s
    ELSE 0

(* A collection with no unique index on email. *)
EmailNotIndexed(us, email) == TRUE

(* User.email is declared unique: the storage layer refuses an insert      *)
(* whose email a stored user already holds.                                *)
EmailUnique(us, email) == \A i \in 1..Len(us) : us[i].email # email

(* Movie.name is declared unique. *)
NameUnique(ms, name, id) == \A m \in ms : m.name = name => m.id = id

FindByEmail(us, email) == {i \in 1..Len(us) : us[i].email = email}

(* Movie.objects.get(id=id, added_by=user_id): the stored movies with this *)
(* id whose added_by is this user; get raises DoesNotExist when there is   *)
(* none.  A movie whose added_by is absent (0) matches no user.            *)
GetOwned(ms, id, user_id) ==
    {m \in ms : m.id = id /\ m.added_by # 0 /\ m.added_by = ObjectId(user_id)}

GetById(ms, id) == {m \in ms : m.id = id}

(* update with the body: its keys are set on the document.  name ""       *)
(* and added_by -1 stand for a key the body does not hold; added_by 0 is   *)
(* null.                                                                   *)
NoBody == [name |-> "", added_by |-> -1]

ApplyBody(m, body) ==
    [id |-> m.id,
     name |-> IF body.name = "" THEN m.name ELSE body.name,
     added_by |-> IF body.added_by = -1 THEN m.added_by ELSE body.added_by]

UpdateMovie(ms, id, body) ==
    {IF m.id = id THEN ApplyBody(m, body) ELSE m : m \in ms}

RECURSIVE Remove(_, _)
Remove(seq, x) ==
    IF seq = <<>> THEN <<>>
    ELSE IF Head(seq) = x THEN Remove(Tail(seq), x)
    ELSE <<Head(seq)>> \o Remove(Tail(seq), x)

(* user.update(push__movies=movie) *)
PushMovie(us, uid, mid) ==
    [us EXCEPT ![uid].movies = Append(us[uid].movies, mid)]

(* reverse_delete_rule=PULL: deleting a movie pulls it from every          *)
(* User.movies list.                                                       *)
PullMovie(us, mid) ==
    [i \in 1..Len(us) |-> [us[i] EXCEPT !.movies = Remove(us[i].movies, mid)]]

(* ------------------------------ responses ----------------------------- *)
(* The error classes reset_password.py imports from resources.errors.      *)
Imported ==
    {"SchemaValidationError", "InternalServerError", "EmailDoesnotExistsError",
     "BadTokenError"}

(* raise <name>: a name the module never imported raises NameError.        *)
Raise(name) == IF name \in Imported THEN name ELSE "NameError"

(* The status an error is answered with; an exception the errors table    *)
(* does not name is answered 500.                                          *)
StatusOf(error) ==
    CASE error = "" -> 200
      [] error = "SchemaValidationError" -> 400
      [] error = "EmailAlreadyExistsError" -> 400
      [] error = "UnauthorizedError" -> 401
      [] error = "EmailDoesnotExistsError" -> 404
      [] error = "BadTokenError" -> 400
      [] error = "ExpiredTokenError" -> 401
      [] OTHER -> 500

MessageOf(error) ==
    CASE error = "UnauthorizedError" -> "Invalid username or password"
      [] error = "EmailAlreadyExistsError" ->
             "User with given email address already exists"
      [] error = "SchemaValidationError" -> "Request is missing required fields"
      [] error = "InternalServerError" -> "Something went wrong"
      [] OTHER -> ""

(* The answer to a request: which endpoint answered, and what; for a movie *)
(* endpoint also whom the handler served (the identity of the accepted     *)
(* token, "" when none was accepted) and the id in the path.               *)
MovieResponse(op, error, user, id) ==
    [op |-> op, status |-> StatusOf(error), error |-> error,
     message |-> MessageOf(error), token |-> NoToken, user |-> user, id |-> id]

Response(op, error, token) ==
    [op |-> op, status |-> StatusOf(error), error |-> error,
     message |-> MessageOf(error), token |-> token, user |-> "", id |-> 0]

(* A worker between requests. *)
Idle == [at |-> "idle", user |-> "", id |-> 0, body |-> NoBody, password |-> ""]

(* -------------------------------- Init -------------------------------- *)
Init ==
    /\ users = <<>>
    /\ movies = {}
    /\ nextMovie = 1
    /\ now = 0
    /\ ticks = 0
    /\ issued = {}
    /\ outbox = {}
    /\ resp = Response("", "", NoToken)
    /\ pc = [w \in Workers |-> Idle]

Reply(op, error, token) == resp' = Response(op, error, token)

MovieReply(op, error, user, id) == resp' = MovieResponse(op, error, user, id)

(* ------------------------- handlers' database calls ------------------- *)
(* Each operator is one call of a handler on the store as it is when the   *)
(* call is made; exc names the exception the call raises, "" for none.     *)

(* movie.save() of a new Movie(name, added_by=user). *)
SaveMovie(ms, mid, name, uid) ==
    IF NameUnique(ms, name, mid)
    THEN [exc |-> "", movies |-> ms \cup {[id |-> mid, name |-> name, added_by |-> uid]}]
    ELSE [exc |-> "NotUniqueError", movies |-> ms]

(* A guard that looks the movie up by id alone. *)
AuthorizeById(ms, id, user_id) ==
    IF GetById(ms, id) = {} THEN "DoesNotExist" ELSE ""

(* The ownership guard of put and delete: the requester must be the        *)
(* movie's added_by.                                                       *)
AuthorizeMutation(ms, id, user_id) ==
    IF GetOwned(ms, id, user_id) = {} THEN "DoesNotExist" ELSE ""

(* Movie.objects.get(id=id).update of the body. *)
UpdateCall(ms, id, body) ==
    IF GetById(ms, id) = {}
    THEN [exc |-> "DoesNotExist", movies |-> ms]
    ELSE IF body = NoBody
    THEN [exc |-> "OperationError", movies |-> ms]
    ELSE IF body.name # "" /\ ~NameUnique(ms, body.name, id)
    THEN [exc |-> "NotUniqueError", movies |-> ms]
    ELSE [exc |-> "", movies |-> UpdateMovie(ms, id, body)]

(* movie.delete(): removes the document with this id, whoever owns it now. *)
DeleteCall(ms, id) == {m \in ms : m.id # id}

(* The except clauses of ForgotPassword.post and ResetPassword.post: the   *)
(* error raised for an exception of the try block.                         *)
ForgotHandler(exc) ==
    CASE exc = "SchemaValidationError" -> Raise("SchemaValidationError")
      [] exc = "EmailDoesnotExistsError" -> Raise("EmailDoesnotExistsError")
      [] OTHER -> Raise("InternalServerError")

ResetHandler(exc) ==
    CASE exc = "SchemaValidationError" -> Raise("SchemaValidationError")
      [] exc = "ExpiredSignatureError" -> Raise("ExpiredTokenError")
      [] exc \in {"DecodeError", "InvalidTokenError"} -> Raise("BadTokenError")
      [] OTHER -> Raise("InternalServerError")

(* User.objects.get(email=email): DoesNotExist when no user has the email. *)
GetUserByEmail(us, email) ==
    IF FindByEmail(us, email) = {}
    THEN [exc |-> "DoesNotExist", id |-> 0]
    ELSE [exc |-> "", id |-> CHOOSE i \in FindByEmail(us, email) : TRUE]

(* The try block of ForgotPassword.post up to the token: the exception it  *)
(* raises and the user the token is for.                                   *)
ForgotTry(us, email) ==
    IF email = ""
    THEN [exc |-> "SchemaValidationError", id |-> 0]
    ELSE GetUserByEmail(us, email)

(* The try block of ResetPassword.post up to the writes. *)
ResetTry(us, token, password, time) ==
    IF token.form = "absent" \/ password = ""
    THEN [exc |-> "SchemaValidationError", id |-> 0]
    ELSE IF decode_token(token, time).exc # ""
    THEN [exc |-> decode_token(token, time).exc, id |-> 0]
    ELSE IF ObjectId(decode_token(token, time).identity) \notin 1..Len(us)
    THEN [exc |-> "DoesNotExist", id |-> 0]
    ELSE [exc |-> "", id |-> ObjectId(decode_token(token, time).identity)]

(* user.modify(password=password): the client's string goes to the store.  *)
ModifyPassword(us, uid, password) == [us EXCEPT ![uid].password = Plain(password)]

(* user.hash_password(); user.save() *)
SaveHashed(us, uid, password, salt) ==
    [us EXCEPT ![uid].password = generate_password_hash(password, salt)]

ResetMail(us, uid) == [kind |-> "confirm", to |-> us[uid].email, token |-> NoToken]

(* ------------------------ requests served in one step ----------------- *)
(* SignupApi.post: the password is hashed, then the user is inserted.      *)
Signup(email, password, salt) ==
    /\ (email # "" /\ password # "" /\ EmailUnique(users, email)) => Len(users) < MaxUsers
    /\ IF password = "" \/ email = ""
       THEN /\ Reply("signup", "InternalServerError", NoToken)
            /\ UNCHANGED users
       ELSE IF ~EmailUnique(users, email)
       THEN /\ Reply("signup", "EmailAlreadyExistsError", NoToken)
            /\ UNCHANGED users
       ELSE /\ users' = Append(users, [email |-> email,
                                       password |-> generate_password_hash(password, salt),
                                       movies |-> <<>>])
            /\ Reply("signup", "", NoToken)
    /\ UNCHANGED <<movies, nextMovie, now, ticks, issued, outbox, pc>>

(* LoginApi.post *)
Login(email, password) ==
    LET found == GetUserByEmail(users, email)
        t == create_access_token(str(found.id), LoginTTL, Cardinality(issued) + 1, now)
    IN  /\ IF found.exc # ""
           THEN Reply("login", "UnauthorizedError", NoToken) /\ UNCHANGED issued
           ELSE IF ~IsHash(users[found.id].password)
           THEN Reply("login", "InternalServerError", NoToken) /\ UNCHANGED issued
           ELSE IF ~check_password(users[found.id], password)
           THEN Reply("login", "UnauthorizedError", NoToken) /\ UNCHANGED issued
           ELSE /\ Cardinality(issued) < MaxTokens
                /\ issued' = issued \cup {[token |-> t, by |-> "login"]}
                /\ Reply("login", "", t)
        /\ UNCHANGED <<users, movies, nextMovie, now, ticks, outbox, pc>>

(* ForgotPassword.post *)
ForgotPassword(email) ==
    LET try == ForgotTry(users, email)
        t == create_access_token(str(try.id), ResetTTL, Cardinality(issued) + 1, now)
    IN  /\ IF try.exc # ""
           THEN Reply("forgot", ForgotHandler(try.exc), NoToken) /\ UNCHANGED <<issued, outbox>>
           ELSE /\ Cardinality(issued) < MaxTokens
                /\ issued' = issued \cup {[token |-> t, by |-> "forgot"]}
                /\ outbox' = outbox \cup {[kind |-> "reset", to |-> users[try.id].email,
                                           token |-> t]}
                /\ Reply("forgot", "", NoToken)
        /\ UNCHANGED <<users, movies, nextMovie, now, ticks, pc>>

(* ResetPassword.post *)
ResetPassword(token, password, salt) ==
    LET try == ResetTry(users, token, password, now)
    IN  /\ IF try.exc # ""
           THEN Reply("reset", ResetHandler(try.exc), NoToken) /\ UNCHANGED <<users, outbox>>
           ELSE /\ users' = SaveHashed(ModifyPassword(users, try.id, password),
                                       try.id, password, salt)
                /\ outbox' = outbox \cup {ResetMail(users, try.id)}
                /\ Reply("reset", "", NoToken)
        /\ UNCHANGED <<movies, nextMovie, now, ticks, issued, pc>>

(* MoviesApi.post *)
PostMovie(token, name) ==
    LET auth == jwt_required(token, now)
        uid == ObjectId(auth.identity)
        saved == SaveMovie(movies, nextMovie, name, uid)
    IN  /\ IF auth.exc # ""
           THEN MovieReply("POST", auth.exc, "", 0) /\ UNCHANGED <<users, movies, nextMovie>>
           ELSE IF uid \notin UserIds
           THEN MovieReply("POST", "DoesNotExist", auth.identity, 0) /\ UNCHANGED <<users, movies, nextMovie>>
           ELSE IF saved.exc # ""
           THEN MovieReply("POST", saved.exc, auth.identity, 0) /\ UNCHANGED <<users, movies, nextMovie>>
           ELSE /\ nextMovie <= MaxMovies
                /\ movies' = saved.movies
                /\ users' = PushMovie(users, uid, nextMovie)
                /\ nextMovie' = nextMovie + 1
                /\ MovieReply("POST", "", auth.identity, nextMovie)
        /\ UNCHANGED <<now, ticks, issued, outbox, pc>>

(* MovieApi.put *)
PutMovie(token, id, body) ==
    LET auth == jwt_required(token, now)
        upd == UpdateCall(movies, id, body)
    IN  /\ IF auth.exc # ""
           THEN MovieReply("PUT", auth.exc, "", id) /\ UNCHANGED movies
           ELSE IF AuthorizeMutation(movies, id, auth.identity) # ""
           THEN MovieReply("PUT", AuthorizeMutation(movies, id, auth.identity), auth.identity, id)
                /\ UNCHANGED movies
           ELSE movies' = upd.movies /\ MovieReply("PUT", upd.exc, auth.identity, id)
        /\ UNCHANGED <<users, nextMovie, now, ticks, issued, outbox, pc>>

(* MovieApi.delete *)
DeleteMovie(token, id) ==
    LET auth == jwt_required(token, now)
    IN  /\ IF auth.exc # ""
           THEN MovieReply("DELETE", auth.exc, "", id) /\ UNCHANGED <<users, movies>>
           ELSE IF AuthorizeMutation(movies, id, auth.identity) # ""
           THEN MovieReply("DELETE", AuthorizeMutation(movies, id, auth.identity), auth.identity, id)
                /\ UNCHANGED <<users, movies>>
           ELSE /\ movies' = DeleteCall(movies, id)
                /\ users' = PullMovie(users, id)
                /\ MovieReply("DELETE", "", auth.identity, id)
        /\ UNCHANGED <<nextMovie, now, ticks, issued, outbox, pc>>

(* Time passes. *)
Tick(d) ==
    /\ ticks < MaxTicks
    /\ now' = now + d
    /\ ticks' = ticks + 1
    /\ UNCHANGED <<users, movies, nextMovie, issued, outbox, resp, pc>>

Bodies == [name : Names \cup {""}, added_by : {-1, 0} \cup UserIds]

SignupRequest ==
    \E e \in Emails \cup {""}, p \in Passwords \cup {""}, s \in Salts : Signup(e, p, s)

LoginRequest == \E e \in Emails, p \in Passwords : Login(e, p)

ForgotRequest == \E e \in Emails \cup {""} : ForgotPassword(e)

ResetRequest ==
    \E t \in Presentable, p \in Passwords \cup {""}, s \in Salts : ResetPassword(t, p, s)

PostRequest == \E t \in Presentable, n \in Names : PostMovie(t, n)

PutRequest == \E t \in Presentable, i \in 1..MaxMovies, b \in Bodies : PutMovie(t, i, b)

DeleteRequest == \E t \in Presentable, i \in 1..MaxMovies : DeleteMovie(t, i)

Clock == \E d \in TickSteps : Tick(d)

(* Every endpoint, one request at a time. *)
Next ==
    \/ SignupRequest
    \/ ForgotRequest
    \/ ResetRequest
    \/ PostRequest
    \/ PutRequest
    \/ DeleteRequest
    \/ LoginRequest
    \/ Clock

Spec == Init /\ [][Next]_vars

(* The account endpoints alone: /api/auth/signup, login, forgot, reset. *)
AuthNext ==
    \/ SignupRequest
    \/ LoginRequest
    \/ ForgotRequest
    \/ ResetRequest
    \/ Clock

SpecAuth == Init /\ [][AuthNext]_vars

(* Signup and login with the movie endpoints, within the lifetime of the   *)
(* session tokens.                                                         *)
MoviesNext ==
    \/ SignupRequest
    \/ LoginRequest
    \/ PostRequest
    \/ PutRequest
    \/ DeleteRequest

SpecMovies == Init /\ [][MoviesNext]_vars

(* ------------- requests served concurrently, call by call ------------- *)
(* A worker holds the handler's local variables between two database calls *)
(* (user: the identity of the token, id: the movie, body, password) and    *)
(* at: the call it makes next.                                             *)
At(w, where) == pc[w].at = where

Goto(w, where, user, id, body, password) ==
    pc' = [pc EXCEPT ![w] = [at |-> where, user |-> user, id |-> id, body |-> body,
                             password |-> password]]

Finish(w) == pc' = [pc EXCEPT ![w] = Idle]

Saving == Cardinality({w \in Workers : pc[w].at = "post_save"})

(* MoviesApi.post, lines 14-16: the identity and the user. *)
PostStart(w, token, name) ==
    LET auth == jwt_required(token, now)
    IN  /\ At(w, "idle")
        /\ IF auth.exc # ""
           THEN MovieReply("POST", auth.exc, "", 0) /\ UNCHANGED pc
           ELSE IF ObjectId(auth.identity) \notin UserIds
           THEN MovieReply("POST", "DoesNotExist", auth.identity, 0) /\ UNCHANGED pc
           ELSE /\ nextMovie + Saving <= MaxMovies
                /\ Goto(w, "post_save", auth.identity, 0, [NoBody EXCEPT !.name = name], "")
                /\ UNCHANGED resp
        /\ UNCHANGED <<users, movies, nextMovie, now, ticks, issued, outbox>>

(* lines 17-18: movie.save() *)
PostSave(w) ==
    LET saved == SaveMovie(movies, nextMovie, pc[w].body.name, ObjectId(pc[w].user))
    IN  /\ At(w, "post_save")
        /\ IF saved.exc # ""
           THEN MovieReply("POST", saved.exc, pc[w].user, 0) /\ Finish(w) /\ UNCHANGED <<movies, nextMovie>>
           ELSE /\ movies' = saved.movies
                /\ nextMovie' = nextMovie + 1
                /\ Goto(w, "post_push", pc[w].user, nextMovie, pc[w].body, "")
                /\ UNCHANGED resp
        /\ UNCHANGED <<users, now, ticks, issued, outbox>>

(* lines 19-22: user.update(push__movies=movie); user.save() has nothing   *)
(* left to write.                                                          *)
PostPush(w) ==
    /\ At(w, "post_push")
    /\ users' = PushMovie(users, ObjectId(pc[w].user), pc[w].id)
    /\ MovieReply("POST", "", pc[w].user, pc[w].id)
    /\ Finish(w)
    /\ UNCHANGED <<movies, nextMovie, now, ticks, issued, outbox>>

(* MovieApi.put, lines 27-29: the ownership check. *)
PutStart(w, token, id, body) ==
    LET auth == jwt_required(token, now)
    IN  /\ At(w, "idle")
        /\ IF auth.exc # ""
           THEN MovieReply("PUT", auth.exc, "", id) /\ UNCHANGED pc
           ELSE IF AuthorizeMutation(movies, id, auth.identity) # ""
           THEN MovieReply("PUT", AuthorizeMutation(movies, id, auth.identity), auth.identity, id)
                /\ UNCHANGED pc
           ELSE Goto(w, "put_update", auth.identity, id, body, "") /\ UNCHANGED resp
        /\ UNCHANGED <<users, movies, nextMovie, now, ticks, issued, outbox>>

(* line 30: the update, on the movie with this id as it is now. *)
PutUpdate(w) ==
    /\ At(w, "put_update")
    /\ movies' = UpdateCall(movies, pc[w].id, pc[w].body).movies
    /\ MovieReply("PUT", UpdateCall(movies, pc[w].id, pc[w].body).exc, pc[w].user, pc[w].id)
    /\ Finish(w)
    /\ UNCHANGED <<users, nextMovie, now, ticks, issued, outbox>>

(* MovieApi.delete, lines 35-36: the ownership check. *)
DeleteStart(w, token, id) ==
    LET auth == jwt_required(token, now)
    IN  /\ At(w, "idle")
        /\ IF auth.exc # ""
           THEN MovieReply("DELETE", auth.exc, "", id) /\ UNCHANGED pc
           ELSE IF AuthorizeMutation(movies, id, auth.identity) # ""
           THEN MovieReply("DELETE", AuthorizeMutation(movies, id, auth.identity), auth.identity, id)
                /\ UNCHANGED pc
           ELSE Goto(w, "delete", auth.identity, id, NoBody, "") /\ UNCHANGED resp
        /\ UNCHANGED <<users, movies, nextMovie, now, ticks, issued, outbox>>

(* line 37: movie.delete() *)
DeleteDo(w) ==
    /\ At(w, "delete")
    /\ movies' = DeleteCall(movies, pc[w].id)
    /\ users' = PullMovie(users, pc[w].id)
    /\ MovieReply("DELETE", "", pc[w].user, pc[w].id)
    /\ Finish(w)
    /\ UNCHANGED <<nextMovie, now, ticks, issued, outbox>>

(* ResetPassword.post, lines 47-56: the body, the token and the user. *)
ResetStart(w, token, password) ==
    LET try == ResetTry(users, token, password, now)
    IN  /\ At(w, "idle")
        /\ IF try.exc # ""
           THEN Reply("reset", ResetHandler(try.exc), NoToken) /\ UNCHANGED pc
           ELSE Goto(w, "reset_modify", str(try.id), 0, NoBody, password) /\ UNCHANGED resp
        /\ UNCHANGED <<users, movies, nextMovie, now, ticks, issued, outbox>>

(* line 58: user.modify(password=password) *)
ResetModify(w) ==
    /\ At(w, "reset_modify")
    /\ users' = ModifyPassword(users, ObjectId(pc[w].user), pc[w].password)
    /\ Goto(w, "reset_save", pc[w].user, 0, NoBody, pc[w].password)
    /\ UNCHANGED <<movies, nextMovie, now, ticks, issued, outbox, resp>>

(* lines 59-66: user.hash_password(); user.save(); send_email(...) *)
ResetSave(w, salt) ==
    /\ At(w, "reset_save")
    /\ users' = SaveHashed(users, ObjectId(pc[w].user), pc[w].password, salt)
    /\ outbox' = outbox \cup {ResetMail(users, ObjectId(pc[w].user))}
    /\ Reply("reset", "", NoToken)
    /\ Finish(w)
    /\ UNCHANGED <<movies, nextMovie, now, ticks, issued>>

(* The workers serve movie requests within the lifetime of the session     *)
(* tokens; signup and login make one database call each.                   *)
ConcNext ==
    \/ SignupRequest
    \/ LoginRequest
    \/ \E w \in Workers, t \in Presentable, n \in Names : PostStart(w, t, n)
    \/ \E w \in Workers : PostSave(w)
    \/ \E w \in Workers : PostPush(w)
    \/ \E w \in Workers, t \in Presentable, i \in 1..MaxMovies, b \in Bodies : PutStart(w, t, i, b)
    \/ \E w \in Workers : PutUpdate(w)
    \/ \E w \in Workers, t \in Presentable, i \in 1..MaxMovies : DeleteStart(w, t, i)
    \/ \E w \in Workers : DeleteDo(w)

SpecConc == Init /\ [][ConcNext]_vars

(* The workers serve reset-password requests beside signup, login and      *)
(* forgot-password.                                                        *)
ResetNext ==
    \/ SignupRequest
    \/ LoginRequest
    \/ ForgotRequest
    \/ Clock
    \/ \E w \in Workers, t \in Presentable, p \in Passwords \cup {""} : ResetStart(w, t, p)
    \/ \E w \in Workers : ResetModify(w)
    \/ \E w \in Workers, s \in Salts : ResetSave(w, s)

SpecReset == Init /\ [][ResetNext]_vars

(* ============================ properties ============================== *)
Authenticated(t) == jwt_required(t, now).exc = ""

Requester(t) == ObjectId(jwt_required(t, now).identity)

(* Movie id is not a stored movie whose added_by is user r. *)
NotOwner(r, id) == \A m \in movies : m.id = id => (m.added_by = 0 \/ m.added_by # r)

Denied == resp'.status # 200

(* C1: a PUT or DELETE on movie id by an authenticated requester r is      *)
(* denied and leaves the Movie collection as it was whenever the movie     *)
(* does not exist, has no added_by, or has another user as added_by; the   *)
(* collection changes only when the requester is the movie's added_by.     *)
C1_OwnerOnlyMutation ==
    [][resp'.op \in {"PUT", "DELETE"} =>
          /\ (resp'.user # "" /\ NotOwner(ObjectId(resp'.user), resp'.id))
                 => (Denied /\ movies' = movies /\ users' = users)
          /\ movies' # movies
                 => (resp'.user # "" /\ ~NotOwner(ObjectId(resp'.user), resp'.id))]_vars

(* A PUT by an authenticated requester was denied on a stored movie whose  *)
(* added_by is another user.                                               *)
C1_Witness ==
    /\ resp.op = "PUT"
    /\ resp.error = "DoesNotExist"
    /\ resp.user # ""
    /\ \E m \in movies :
          m.id = resp.id /\ m.added_by # 0 /\ m.added_by # ObjectId(resp.user)

(* The password a stored hash was derived from. *)
Registered(e) == FindByEmail(users, e) # {}

Correct(e, p) ==
    \E i \in FindByEmail(users, e) :
        IsHash(users[i].password) /\ users[i].password.digest[2] = p

(* C2: a login with an email of no user and a login with a registered      *)
(* email and a wrong password get the same answer, field by field (401,    *)
(* "Invalid username or password", no token) and issue nothing; a login    *)
(* with the right email and password is answered 200 with a signed token.  *)
C2_LoginFailuresIdentical ==
    [][\A e \in Emails, p \in Passwords :
          Login(e, p) =>
              IF Registered(e) /\ Correct(e, p)
              THEN /\ resp'.status = 200
                   /\ resp'.token.form = "signed"
                   /\ resp'.token \in LoginTokens'
              ELSE /\ resp'.op = "login"
                   /\ resp'.status = 401
                   /\ resp'.error = "UnauthorizedError"
                   /\ resp'.message = "Invalid username or password"
                   /\ resp'.token = NoToken
                   /\ issued' = issued]_vars

(* A login was refused while some user is registered. *)
C2_Witness == resp.op = "login" /\ resp.status = 401 /\ Len(users) > 0

NoDuplicateEmails ==
    \A i, j \in 1..Len(users) : users[i].email = users[j].email => i = j

(* C3: a signup with an email a stored user holds is answered 400, "User   *)
(* with given email address already exists", whatever password it gives,   *)
(* and stores no user; no two stored users ever have the same email.       *)
C3_DuplicateEmailRefused ==
    [][/\ \A e \in Emails, p \in Passwords, s \in Salts :
             (Signup(e, p, s) /\ Registered(e)) =>
                 /\ resp'.status = 400
                 /\ resp'.error = "EmailAlreadyExistsError"
                 /\ resp'.message = "User with given email address already exists"
                 /\ users' = users
       /\ NoDuplicateEmails']_vars

(* A signup was refused for its email. *)
C3_Witness ==
    resp.op = "signup" /\ resp.error = "EmailAlreadyExistsError" /\ Len(users) > 0

Expired(t) == t.form = "signed" /\ t.exp <= now

Unverifiable(t) == t.form \in {"malformed", "tampered"}

(* C4: a reset-password request whose reset_token is expired, malformed or *)
(* badly signed fails, and every stored password stays what it was.        *)
C4_BadTokenNoReset ==
    [][\A t \in Presentable, p \in Passwords \cup {""}, s \in Salts :
          (ResetPassword(t, p, s) /\ (Expired(t) \/ Unverifiable(t))) =>
              /\ Denied
              /\ users' = users]_vars

(* A reset failed while an expired reset token is out. *)
C4_Witness ==
    /\ resp.op = "reset"
    /\ resp.status # 200
    /\ \E t \in ResetTokens : Expired(t)

(* C5: reset-password reports a missing reset_token or password as         *)
(* SchemaValidationError, an expired token as ExpiredTokenError, a         *)
(* malformed or badly signed token as BadTokenError, and answers           *)
(* InternalServerError for no failure of these kinds.                      *)
C5_ResetErrorKinds ==
    [][\A t \in Presentable, p \in Passwords \cup {""}, s \in Salts :
          ResetPassword(t, p, s) =>
              /\ (t.form = "absent" \/ p = "")
                     => resp'.error = "SchemaValidationError"
              /\ (t.form # "absent" /\ p # "" /\ Expired(t))
                     => resp'.error = "ExpiredTokenError"
              /\ (t.form # "absent" /\ p # "" /\ Unverifiable(t))
                     => resp'.error = "BadTokenError"
              /\ resp'.error = "InternalServerError"
                     => ~(t.form = "absent" \/ p = "" \/ Expired(t) \/ Unverifiable(t))]_vars

(* C6: forgot-password for an email of no stored user is answered with the *)
(* email-not-found error, issues no token and sends no mail; without an    *)
(* email it is answered SchemaValidationError.                             *)
C6_ForgotUnknownEmail ==
    [][\A e \in Emails \cup {""} :
          ForgotPassword(e) =>
              /\ e = "" => resp'.error = "SchemaValidationError"
              /\ (e # "" /\ ~Registered(e)) =>
                     /\ resp'.error = "EmailDoesnotExistsError"
                     /\ issued' = issued
                     /\ outbox' = outbox]_vars

(* C7: a token issued by forgot-password is refused by the movie           *)
(* endpoints, and a token issued by login is refused by reset-password.    *)
C7_TokensNotInterchangeable ==
    [][/\ \A t \in ResetTokens, id \in 1..MaxMovies :
             /\ \A n \in Names : PostMovie(t, n) => Denied
             /\ \A b \in Bodies : PutMovie(t, id, b) => Denied
             /\ DeleteMovie(t, id) => Denied
       /\ \A t \in LoginTokens, p \in Passwords, s \in Salts :
             ResetPassword(t, p, s) => Denied]_vars

RECURSIVE Elements(_)
Elements(seq) == IF seq = <<>> THEN {} ELSE {Head(seq)} \cup Elements(Tail(seq))

(* C8: in every state, every stored movie with added_by = u is in          *)
(* u.movies, and every entry of u.movies is a stored movie with            *)
(* added_by = u.                                                           *)
C8_BackReference ==
    /\ \A m \in movies :
          m.added_by # 0 =>
              m.added_by \in UserIds /\ m.id \in Elements(users[m.added_by].movies)
    /\ \A u \in UserIds :
          \A id \in Elements(users[u].movies) :
              \E m \in movies : m.id = id /\ m.added_by = u

(* C9: in every state, the password field of every stored user holds a     *)
(* hash, never the string the client sent.                                 *)
C9_PasswordAlwaysHashed == \A u \in UserIds : IsHash(users[u].password)

(* C10: the write of a PUT or DELETE lands on a movie only if the          *)
(* requester is the movie's added_by at the moment of the write.           *)
C10_WriteOnlyWhileOwner ==
    [][\A w \in Workers :
          /\ (PutUpdate(w) /\ movies' # movies)
                 => ~NotOwner(ObjectId(pc[w].user), pc[w].id)
          /\ (DeleteDo(w) /\ movies' # movies)
                 => ~NotOwner(ObjectId(pc[w].user), pc[w].id)]_vars

====
